---- MODULE Spec2Model ----
(***************************************************************************)
(* Model of OptimizedPredictionPipeline                                    *)
(* (src/src/prediction/prediction_pipeline.py).                            *)
(*                                                                         *)
(* The state is the pipeline object's three lookup tables, which is all   *)
(* the object keeps between calls, and the record of the call whose result *)
(* the caller holds.  Each method is one action; Return is the caller      *)
(* letting go of a result.  A method is an operator of `self`, the         *)
(* object's tables, and its arguments.                                     *)
(*                                                                         *)
(* Numbers.  Tensor elements are exact rationals <<n, d>> in lowest terms  *)
(* (d > 0); float32 rounding is not modelled, with one exception: a score  *)
(* so far below the row's maximum that exp() underflows has softmax        *)
(* weight 0, as in the float32 build, so a softmax row may hold exact 0s   *)
(* and an exact 1.                                                         *)
(*                                                                         *)
(* Labels.  A condition is the sequence of the words of its string, so     *)
(* that Python's substring test ('Neural Foraminal Narrowing' in           *)
(* condition) is computed, at word granularity.  A level is a string.      *)
(*                                                                         *)
(* Tensors.  A tensor is a handle [store, rows] into a heap of storages    *)
(* (each a sequence of rows), so that views and in-place updates alias as  *)
(* they do in torch.                                                       *)
(***************************************************************************)
EXTENDS Integers, Sequences, FiniteSets, TLC

\* ------------------------------------------------------------------ bounds

\* Largest softmax weight exp(score - c) of one class, as an integer.
MaxExpWeight == 5
\* Largest number of samples a dataloader yields.
MaxSamples == 4
\* Largest batch_size of a dataloader.
MaxBatchSize == 3
\* Number of samples of the dataset the dataloaders read.
DatasetSize == 100
\* The largest softmax weight in a score row of a width other than 3.
MaxWrongWidthWeight == 2

\* ------------------------------------------------------- exact arithmetic

RECURSIVE GCD(_, _)
GCD(a, b) == IF b = 0 THEN a ELSE GCD(b, a % b)

\* The rational n/d (n >= 0, d > 0) in lowest terms.
Rat(n, d) == LET g == GCD(n, d) IN <<n \div g, d \div g>>

Zero == <<0, 1>>
One == <<1, 1>>

RatMul(a, b) ==
    LET g1 == GCD(a[1], b[2])
        g2 == GCD(b[1], a[2])
    IN  <<(a[1] \div g1) * (b[1] \div g2), (a[2] \div g2) * (b[2] \div g1)>>

RatAdd(a, b) ==
    LET g == GCD(a[2], b[2])
    IN  Rat(a[1] * (b[2] \div g) + b[1] * (a[2] \div g), (a[2] \div g) * b[2])

\* a / b, b # 0.
RatDiv(a, b) == RatMul(a, <<b[2], b[1]>>)

RatLE(a, b) ==
    LET g == GCD(a[2], b[2])
    IN  a[1] * (b[2] \div g) <= b[1] * (a[2] \div g)

RatLT(a, b) == ~RatLE(b, a)

RECURSIVE RatSum(_)
RatSum(row) ==
    IF row = <<>> THEN Zero ELSE RatAdd(row[1], RatSum(Tail(row)))

\* ------------------------------------------------------------------ labels

SCS == <<"Spinal", "Canal", "Stenosis">>
LNFN == <<"Left", "Neural", "Foraminal", "Narrowing">>
RNFN == <<"Right", "Neural", "Foraminal", "Narrowing">>
LSS == <<"Left", "Subarticular", "Stenosis">>
RSS == <<"Right", "Subarticular", "Stenosis">>
NFN == <<"Neural", "Foraminal", "Narrowing">>
SS == <<"Subarticular", "Stenosis">>

\* Strings a caller may pass: the 5 labels of each axis and others.
ConditionArgs ==
    {SCS, LNFN, RNFN, LSS, RSS,
     <<"Disc", "Herniation">>, <<"Bilateral", "Neural", "Foraminal", "Narrowing">>}
LevelArgs == {"L1_L2", "L2_L3", "L3_L4", "L4_L5", "L5_S1", "T12_L1"}

\* needle in hay (Python's str.__contains__), on words.
Contains(needle, hay) ==
    \E i \in 1..(Len(hay) - Len(needle) + 1) :
        SubSeq(hay, i, i + Len(needle) - 1) = needle

\* ---------------------------------------------------- dicts (insertion order)

\* A dict is the sequence of its <<key, value>> items in insertion order.
Keys(dict) == [i \in 1..Len(dict) |-> dict[i][1]]
HasKey(dict, key) == \E i \in 1..Len(dict) : dict[i][1] = key
Lookup(dict, key) ==
    dict[CHOOSE i \in 1..Len(dict) : dict[i][1] = key][2]
\* dict.get(key, default)
Get(dict, key, default) ==
    IF HasKey(dict, key) THEN Lookup(dict, key) ELSE default

\* ------------------------------------------------------------------- state

VARIABLES condition_weights, level_weights, log_loss_thresholds, last

vars == <<condition_weights, level_weights, log_loss_thresholds, last>>

InitConditionWeights ==
    << <<SCS, Rat(100, 100)>>,
       <<LNFN, Rat(95, 100)>>,
       <<RNFN, Rat(95, 100)>>,
       <<LSS, Rat(93, 100)>>,
       <<RSS, Rat(93, 100)>> >>

InitLevelWeights ==
    << <<"L1_L2", Rat(100, 100)>>,
       <<"L2_L3", Rat(98, 100)>>,
       <<"L3_L4", Rat(95, 100)>>,
       <<"L4_L5", Rat(90, 100)>>,
       <<"L5_S1", Rat(92, 100)>> >>

InitLogLossThresholds ==
    << <<SCS, << <<"L1_L2", Rat(1067, 10000)>>,
                 <<"L2_L3", Rat(4514, 10000)>>,
                 <<"L3_L4", Rat(5757, 10000)>>,
                 <<"L4_L5", Rat(8928, 10000)>>,
                 <<"L5_S1", Rat(2164, 10000)>> >> >>,
       <<NFN, << <<"L1_L2", Rat(2200, 10000)>>,
                 <<"L2_L3", Rat(4635, 10000)>>,
                 <<"L3_L4", Rat(9959, 10000)>>,
                 <<"L4_L5", Rat(11089, 10000)>>,
                 <<"L5_S1", Rat(10936, 10000)>> >> >>,
       <<SS, << <<"L1_L2", Rat(2285, 10000)>>,
                <<"L2_L3", Rat(5337, 10000)>>,
                <<"L3_L4", Rat(9766, 10000)>>,
                <<"L4_L5", Rat(11551, 10000)>>,
                <<"L5_S1", Rat(7856, 10000)>> >> >> >>

\* The object as a method sees it.
Self ==
    [condition_weights |-> condition_weights,
     level_weights |-> level_weights,
     log_loss_thresholds |-> log_loss_thresholds]

\* The object as __init__ leaves it.
InitSelf ==
    [condition_weights |-> InitConditionWeights,
     level_weights |-> InitLevelWeights,
     log_loss_thresholds |-> InitLogLossThresholds]

\* The record of a call: what was called, with what (`input` is the tensor
\* argument, or what the classifier returned, or the dataloader), and how
\* it ended; `trace` holds, per call of apply_condition_level_adjustments
\* made, what it computed on the way.
NoCall ==
    [op |-> "none", condition |-> <<>>, level |-> "", input |-> <<>>,
     error |-> "", model_invoked |-> FALSE, returned |-> <<>>, trace |-> <<>>]

Init ==
    /\ condition_weights = InitConditionWeights
    /\ level_weights = InitLevelWeights
    /\ log_loss_thresholds = InitLogLossThresholds
    /\ last = NoCall

\* ------------------------------------------------------- preprocess_input

\* condition_map with the indices of two conditions exchanged.
condition_map_exchanged ==
    << <<SCS, 0>>, <<LNFN, 3>>, <<RNFN, 2>>, <<LSS, 1>>, <<RSS, 4>> >>

condition_map ==
    << <<SCS, 0>>, <<LNFN, 1>>, <<RNFN, 2>>, <<LSS, 3>>, <<RSS, 4>> >>

level_map ==
    << <<"L1_L2", 0>>, <<"L2_L3", 1>>, <<"L3_L4", 2>>, <<"L4_L5", 3>>,
       <<"L5_S1", 4>> >>

\* torch.zeros(5) with element idx (from 0) set to 1.
OneHot(idx) == [i \in 1..5 |-> IF i = idx + 1 THEN 1 ELSE 0]

\* preprocess_input with dict.get(label, 0) in place of dict[label]: an
\* unknown label is encoded as the first of its axis.
preprocess_input_defaulting(condition, level) ==
    [error |-> "",
     condition_tensor |-> OneHot(Get(condition_map, condition, 0)),
     level_tensor |-> OneHot(Get(level_map, level, 0))]

\* The outcome of preprocess_input: the two one-hot tensors, or the
\* exception the dict lookup raises.
preprocess_input(condition, level) ==
    IF ~HasKey(condition_map, condition)
    THEN [error |-> "KeyError", condition_tensor |-> <<>>, level_tensor |-> <<>>]
    ELSE IF ~HasKey(level_map, level)
    THEN [error |-> "KeyError", condition_tensor |-> <<>>, level_tensor |-> <<>>]
    ELSE [error |-> "",
          condition_tensor |-> OneHot(Lookup(condition_map, condition)),
          level_tensor |-> OneHot(Lookup(level_map, level))]

PreprocessInputCall(condition, level) ==
    LET r == preprocess_input(condition, level)
    IN  [op |-> "preprocess_input", condition |-> condition, level |-> level,
         input |-> <<>>, error |-> r.error, model_invoked |-> FALSE,
         returned |-> IF r.error = ""
                      THEN <<r.condition_tensor, r.level_tensor>> ELSE <<>>,
         trace |-> <<>>]

PreprocessInput(condition, level) ==
    /\ last = NoCall
    /\ last' = PreprocessInputCall(condition, level)
    /\ UNCHANGED <<condition_weights, level_weights, log_loss_thresholds>>

\* ----------------------------------------------------------------- tensors

\* A heap is a sequence of storages, a storage a sequence of rows, a row a
\* sequence of rationals.  A tensor is [store, rows]: the rows of one
\* storage it shows (a view shares its storage with the tensor it is of).
Value(heap, t) == [k \in 1..Len(t.rows) |-> heap[t.store][t.rows[k]]]

\* A new tensor holding `value`.
NewTensor(heap, value) ==
    [heap |-> Append(heap, value),
     tensor |-> [store |-> Len(heap) + 1,
                 rows |-> [k \in 1..Len(value) |-> k]]]

\* t[i].unsqueeze(0): a view of row i (from 0) of t.
RowView(t, i) == [store |-> t.store, rows |-> <<t.rows[i + 1]>>]

\* t[:, col] op= c, in place (op is "*=" or "+="; col from 0): the heap with
\* element col of each row that t shows updated.
UpdateColumn(heap, t, col, op, c) ==
    [heap EXCEPT ![t.store] =
        [r \in 1..Len(@) |->
            IF \E k \in 1..Len(t.rows) : t.rows[k] = r
            THEN [@[r] EXCEPT ![col + 1] =
                     IF op = "*=" THEN RatMul(@, c) ELSE RatAdd(@, c)]
            ELSE @[r]]]

\* Whether every row of t has a column col (from 0).
HasColumn(heap, t, col) ==
    \A k \in 1..Len(t.rows) : col + 1 <= Len(heap[t.store][t.rows[k]])

RECURSIVE IntSum(_)
IntSum(row) == IF row = <<>> THEN 0 ELSE row[1] + IntSum(Tail(row))

\* F.softmax(scores, dim=1).  A score is held as its softmax weight
\* exp(score - c), an integer (0: exp underflows), c common to the row.
Softmax(scores) ==
    [r \in 1..Len(scores) |->
        [j \in 1..Len(scores[r]) |-> Rat(scores[r][j], IntSum(scores[r]))]]

\* The largest element of a row.
RowMax(row) ==
    row[CHOOSE j \in 1..Len(row) : \A k \in 1..Len(row) : RatLE(row[k], row[j])]

\* torch.argmax over one row: the first index (from 0) of its maximum.
ArgMax(row) ==
    (CHOOSE j \in 1..Len(row) :
        /\ \A k \in 1..Len(row) : RatLE(row[k], row[j])
        /\ \A k \in 1..(j - 1) : RatLT(row[k], row[j])) - 1

\* torch.argmax(...).item() of a 0/1 vector.
ArgMaxInt(vec) ==
    (CHOOSE j \in 1..Len(vec) :
        /\ \A k \in 1..Len(vec) : vec[k] <= vec[j]
        /\ \A k \in 1..(j - 1) : vec[k] < vec[j]) - 1

\* ------------------------------------ apply_condition_level_adjustments

\* predictions *= weight: the operand scaled in place and returned.
ScaleInPlace(heap, predictions, weight) ==
    [heap |-> [heap EXCEPT ![predictions.store] =
                  [r \in 1..Len(@) |->
                      IF \E k \in 1..Len(predictions.rows) : predictions.rows[k] = r
                      THEN [j \in 1..Len(@[r]) |-> RatMul(@[r][j], weight)]
                      ELSE @[r]]],
     tensor |-> predictions]

\* predictions * weight: a new tensor, the operand left alone.
ScaledCopy(heap, predictions, weight) ==
    NewTensor(heap,
        [r \in 1..Len(predictions.rows) |->
            LET row == Value(heap, predictions)[r]
            IN  [j \in 1..Len(row) |-> RatMul(row[j], weight)]])

\* log_loss_threshold > 0.9
HighUncertaintyAboveNineTenths(log_loss_threshold) ==
    RatLT(Rat(9, 10), log_loss_threshold)

\* log_loss_threshold > 0.5
HighUncertaintyAboveHalf(log_loss_threshold) ==
    RatLT(Rat(5, 10), log_loss_threshold)

\* log_loss_threshold > 0.8
HighUncertainty(log_loss_threshold) == RatLT(Rat(8, 10), log_loss_threshold)

\* The three updates with columns 0 and 2 exchanged: the Normal/Mild column
\* reduced, 0.1 added to the Severe one.
BiasCorrectionTowardSevere(heap, adjusted) ==
    IF ~HasColumn(heap, adjusted, 2)
    THEN [error |-> "IndexError", heap |-> heap]
    ELSE LET h1 == UpdateColumn(heap, adjusted, 0, "*=", Rat(9, 10))
             h2 == UpdateColumn(h1, adjusted, 1, "*=", Rat(95, 100))
             h3 == UpdateColumn(h2, adjusted, 2, "+=", Rat(1, 10))
         IN  [error |-> "", heap |-> h3]

\* The three in-place updates of the high-uncertainty branch, in the
\* code's order; indexing a column the tensor lacks raises IndexError.
BiasCorrection(heap, adjusted) ==
    IF ~HasColumn(heap, adjusted, 2)
    THEN [error |-> "IndexError", heap |-> heap]
    ELSE LET h1 == UpdateColumn(heap, adjusted, 2, "*=", Rat(9, 10))
             h2 == UpdateColumn(h1, adjusted, 1, "*=", Rat(95, 100))
             h3 == UpdateColumn(h2, adjusted, 0, "+=", Rat(1, 10))
         IN  [error |-> "", heap |-> h3]

\* The row as it is: F.normalize left out.
NormalizeRowOmitted(row) == row

\* One row divided by max(its L1 norm, eps).  No element is negative here,
\* so the norm is the sum; eps = 1e-12 is below every nonzero norm of the
\* model's grid, so it divides only the all-zero row, which stays zero.
NormalizeRow(row) ==
    LET norm == RatSum(row)
    IN  IF norm = Zero THEN row
        ELSE [j \in 1..Len(row) |-> RatDiv(row[j], norm)]

\* F.normalize(adjusted, p=1, dim=1): a new tensor.
Normalize(heap, adjusted) ==
    NewTensor(heap,
        [r \in 1..Len(adjusted.rows) |-> NormalizeRow(Value(heap, adjusted)[r])])

\* The level weight left out of the product.
CombinedWeightOfCondition(condition_weight, level_weight) == condition_weight

\* condition_weight * level_weight
CombinedWeight(condition_weight, level_weight) ==
    RatMul(condition_weight, level_weight)

\* The log-loss family of a condition.
ConditionKey(condition) ==
    IF Contains(NFN, condition) THEN NFN
    ELSE IF Contains(SS, condition) THEN SS
    ELSE condition

\* apply_condition_level_adjustments ending in an exception.
Raised(heap, error, condition, level) ==
    [heap |-> heap, error |-> error, tensor |-> <<>>,
     trace |-> [condition |-> condition, level |-> level, weight |-> Zero,
                log_loss_threshold |-> Zero, pre_norm |-> <<>>,
                input_before |-> <<>>, input_after |-> <<>>]]

\* The outcome of apply_condition_level_adjustments on tensor
\* `predictions` of `heap`: the heap after it, the tensor it returns or the
\* exception it raises, and a trace: the labels and the combined weight it
\* used, the log-loss entry it read, the value it handed to F.normalize,
\* and the value of `predictions` as it was called and as it returned.
apply_condition_level_adjustments(self, heap, predictions, condition, level) ==
    LET condition_weight == Get(self.condition_weights, condition, Rat(95, 100))
        level_weight == Get(self.level_weights, level, Rat(90, 100))
        condition_key == ConditionKey(condition)
    IN  IF ~HasKey(self.log_loss_thresholds, condition_key)
        THEN Raised(heap, "KeyError", condition, level)
        ELSE IF ~HasKey(Lookup(self.log_loss_thresholds, condition_key), level)
        THEN Raised(heap, "KeyError", condition, level)
        ELSE
        LET log_loss_threshold ==
                Lookup(Lookup(self.log_loss_thresholds, condition_key), level)
            weight == CombinedWeight(condition_weight, level_weight)
            scaled == ScaledCopy(heap, predictions, weight)
            biased == IF HighUncertainty(log_loss_threshold)
                      THEN BiasCorrection(scaled.heap, scaled.tensor)
                      ELSE [error |-> "", heap |-> scaled.heap]
        IN  IF biased.error # ""
            THEN Raised(biased.heap, biased.error, condition, level)
            ELSE
            LET normalized == Normalize(biased.heap, scaled.tensor)
            IN  [heap |-> normalized.heap, error |-> "",
                 tensor |-> normalized.tensor,
                 trace |-> [condition |-> condition, level |-> level,
                            weight |-> weight,
                            log_loss_threshold |-> log_loss_threshold,
                            pre_norm |-> Value(biased.heap, scaled.tensor),
                            input_before |-> Value(heap, predictions),
                            input_after |-> Value(normalized.heap, predictions)]]

\* What the upstream classifier can return for one image: a row of 3 scores
\* (as softmax weights), not all underflowing.
ScoreRows ==
    {s \in [1..3 -> 0..MaxExpWeight] : s[1] + s[2] + s[3] > 0}

ApplyAdjustmentsCall(self, predictions, condition, level) ==
    LET made == NewTensor(<<>>, predictions)
        r == apply_condition_level_adjustments(self, made.heap, made.tensor,
                                               condition, level)
    IN  [op |-> "apply_condition_level_adjustments",
         condition |-> condition, level |-> level,
         input |-> Value(made.heap, made.tensor),
         error |-> r.error, model_invoked |-> FALSE,
         returned |-> IF r.error = "" THEN Value(r.heap, r.tensor) ELSE <<>>,
         trace |-> <<r.trace>>]

\* A call of apply_condition_level_adjustments on a distribution.
ApplyAdjustments(scores, condition, level) ==
    /\ last = NoCall
    /\ last' = ApplyAdjustmentsCall(Self, Softmax(<<scores>>), condition, level)
    /\ UNCHANGED <<condition_weights, level_weights, log_loss_thresholds>>

\* ---------------------------------------------- get_prediction_confidence

\* 1 / 1e-7, the epsilon added inside each logarithm.
EpsInverse == 10000000

\* The sign of log(p + 1e-7): that of p + 1e-7 - 1, compared without
\* leaving the integers ((d - n) * EpsInverse against d, for p = n/d).
LogSign(p) ==
    LET k == p[2] - p[1]
    IN  IF k <= 0 \/ k <= (p[2] - 1) \div EpsInverse THEN 1
        ELSE IF p[2] % EpsInverse = 0 /\ p[2] \div EpsInverse = k THEN 0
        ELSE -1

\* The sign of p * log(p + 1e-7).
TermSign(p) == IF p = Zero THEN 0 ELSE LogSign(p)

\* The sign of entropy = -(sum of the terms), where the signs of the terms
\* decide it: 1, 0 or -1, and 2 where terms of both signs occur.
EntropySign(row) ==
    LET signs == {TermSign(row[j]) : j \in 1..Len(row)}
    IN  IF signs = {0} THEN 0
        ELSE IF signs \subseteq {-1, 0} THEN 1
        ELSE IF signs \subseteq {0, 1} THEN -1
        ELSE 2

\* get_prediction_confidence: per row, confidence =
\* max_prob * (1 - entropy / ln 3), held as max_prob and the sign of entropy
\* (ln 3 > 0: the confidence is below, at or above max_prob as entropy is
\* above, at or below 0).
get_prediction_confidence(predictions) ==
    [r \in 1..Len(predictions) |->
        [max_prob |-> RowMax(predictions[r]),
         entropy_sign |-> EntropySign(predictions[r])]]

GetPredictionConfidenceCall(predictions) ==
    [op |-> "get_prediction_confidence", condition |-> <<>>, level |-> "",
     input |-> predictions, error |-> "", model_invoked |-> FALSE,
     returned |-> get_prediction_confidence(predictions), trace |-> <<>>]

\* A call of get_prediction_confidence on a distribution.
GetPredictionConfidence(scores) ==
    /\ last = NoCall
    /\ last' = GetPredictionConfidenceCall(Softmax(<<scores>>))
    /\ UNCHANGED <<condition_weights, level_weights, log_loss_thresholds>>

\* ----------------------------------------------------------------- predict

\* The upstream classifier: an image is held as the scores the classifier
\* returns for it, one row per image.
classification_model(images, conditions, levels) == images

\* torch.argmax(base_probabilities, dim=1)
SeverityOfBase(adjusted, base) ==
    [r \in 1..Len(base) |-> ArgMax(base[r])]

\* torch.argmax(adjusted_predictions, dim=1)
SeverityPrediction(adjusted, base) ==
    [r \in 1..Len(adjusted) |-> ArgMax(adjusted[r])]

\* The dict predict returns, read from the heap as the call ends.
PredictResult(heap, adjusted_predictions, base_probabilities) ==
    [probabilities |-> Value(heap, adjusted_predictions),
     confidence |-> get_prediction_confidence(Value(heap, adjusted_predictions)),
     severity_prediction |->
         SeverityPrediction(Value(heap, adjusted_predictions),
                            Value(heap, base_probabilities)),
     original_probabilities |-> Value(heap, base_probabilities)]

PredictCall(self, image, condition, level) ==
    LET pre == preprocess_input(condition, level)
    IN  IF pre.error # ""
        THEN [op |-> "predict", condition |-> condition, level |-> level,
              input |-> <<>>, error |-> pre.error, model_invoked |-> FALSE,
              returned |-> <<>>, trace |-> <<>>]
        ELSE
        LET base_predictions ==
                classification_model(<<image>>, <<pre.condition_tensor>>,
                                     <<pre.level_tensor>>)
            base == NewTensor(<<>>, Softmax(base_predictions))
            adj == apply_condition_level_adjustments(self, base.heap,
                                                     base.tensor, condition, level)
        IN  [op |-> "predict", condition |-> condition, level |-> level,
             input |-> base_predictions, error |-> adj.error,
             model_invoked |-> TRUE,
             returned |-> IF adj.error # "" THEN <<>>
                          ELSE <<PredictResult(adj.heap, adj.tensor, base.tensor)>>,
             trace |-> <<adj.trace>>]

\* predict keeping the combined weight it used in self.level_weights.
PredictStoringWeight(image, condition, level) ==
    /\ last = NoCall
    /\ last' = PredictCall(Self, image, condition, level)
    /\ level_weights' =
           [i \in 1..Len(level_weights) |->
               IF level_weights[i][1] = level
               THEN <<level,
                      CombinedWeight(Get(condition_weights, condition, Rat(95, 100)),
                                     level_weights[i][2])>>
               ELSE level_weights[i]]
    /\ UNCHANGED <<condition_weights, log_loss_thresholds>>

Predict(image, condition, level) ==
    /\ last = NoCall
    /\ last' = PredictCall(Self, image, condition, level)
    /\ UNCHANGED <<condition_weights, level_weights, log_loss_thresholds>>

\* ----------------------------------------------------------- batch_predict

\* The image at place k: the digits of a number in 1..Cardinality(ScoreRows)
\* to base MaxExpWeight + 1.
ImageAt(k) ==
    LET b == MaxExpWeight + 1
        n == (k % Cardinality(ScoreRows)) + 1
    IN  <<n % b, (n \div b) % b, (n \div (b * b)) % b>>

\* Dataset.__getitem__(k): the image and the one-hot labels of sample k
\* (the samples go through the 25 label pairs and through the images).
DatasetItem(k) ==
    [image |-> ImageAt(k),
     condition |-> OneHot(k % 5),
     level |-> OneHot((k \div 5) % 5)]

\* One batch of a DataLoader(shuffle=False): samples first..last collated.
Collate(first, final) ==
    [image |-> [i \in 1..(final - first + 1) |-> DatasetItem(first + i - 1).image],
     condition |-> [i \in 1..(final - first + 1) |-> DatasetItem(first + i - 1).condition],
     level |-> [i \in 1..(final - first + 1) |-> DatasetItem(first + i - 1).level]]

\* The batches of DataLoader(dataset, batch_size, shuffle=False) over the
\* `count` samples from `start`: consecutive chunks, the last one shorter.
DataLoader(start, count, batch_size) ==
    [b \in 1..((count + batch_size - 1) \div batch_size) |->
        LET first == start + (b - 1) * batch_size
            final == IF b * batch_size <= count
                     THEN first + batch_size - 1 ELSE start + count - 1
        IN  Collate(first, final)]

\* The state of batch_predict's loops: the heap, the exception raised if
\* any, the dicts appended to `predictions` (their tensors, not yet their
\* values) and the traces.
AppendPrediction(acc, adj, base_view) ==
    [heap |-> adj.heap, error |-> adj.error,
     predictions |-> IF adj.error # "" THEN acc.predictions
                     ELSE Append(acc.predictions,
                                 [adjusted |-> adj.tensor, base |-> base_view]),
     trace |-> Append(acc.trace, adj.trace)]

\* range(1, len(images))
SampleIndicesFromOne(n) == [i \in 1..(n - 1) |-> i]

\* The samples range(len(images)) goes through, from 0.
SampleIndices(n) == [i \in 1..n |-> i - 1]

\* The body of "for i in range(len(images))" from the k-th index on.
RECURSIVE SampleLoop(_, _, _, _, _)
SampleLoop(self, acc, batch, probs, k) ==
    IF acc.error # "" \/ k > Len(SampleIndices(Len(batch.image))) THEN acc
    ELSE
    LET i == SampleIndices(Len(batch.image))[k]
        condition_idx == ArgMaxInt(batch.condition[i + 1])
        level_idx == ArgMaxInt(batch.level[i + 1])
        condition == Keys(self.condition_weights)[condition_idx + 1]
        level == Keys(self.level_weights)[level_idx + 1]
        adj == apply_condition_level_adjustments(self, acc.heap,
                   RowView(probs, i), condition, level)
    IN  SampleLoop(self, AppendPrediction(acc, adj, RowView(probs, i)),
                   batch, probs, k + 1)

\* The body of "for batch in dataloader" from the b-th batch on.
RECURSIVE BatchLoop(_, _, _, _)
BatchLoop(self, acc, dataloader, b) ==
    IF acc.error # "" \/ b > Len(dataloader) THEN acc
    ELSE
    LET batch == dataloader[b]
        outputs == classification_model(batch.image, batch.condition, batch.level)
        probs == NewTensor(acc.heap, Softmax(outputs))
    IN  BatchLoop(self,
                  SampleLoop(self, [acc EXCEPT !.heap = probs.heap], batch,
                             probs.tensor, 1),
                  dataloader, b + 1)

BatchPredictCall(self, dataloader) ==
    LET done == BatchLoop(self,
                    [heap |-> <<>>, error |-> "", predictions |-> <<>>,
                     trace |-> <<>>],
                    dataloader, 1)
    IN  [op |-> "batch_predict", condition |-> <<>>, level |-> "",
         input |-> dataloader, error |-> done.error,
         model_invoked |-> Len(dataloader) > 0,
         returned |-> IF done.error # "" THEN <<>>
                      ELSE [k \in 1..Len(done.predictions) |->
                               PredictResult(done.heap,
                                             done.predictions[k].adjusted,
                                             done.predictions[k].base)],
         trace |-> done.trace]

BatchPredict(start, count, batch_size) ==
    /\ last = NoCall
    /\ last' = BatchPredictCall(Self, DataLoader(start, count, batch_size))
    /\ UNCHANGED <<condition_weights, level_weights, log_loss_thresholds>>

\* ------------------------------------------------------------------ caller

\* The caller is done with the result of a call.
Return ==
    /\ last # NoCall
    /\ last' = NoCall
    /\ UNCHANGED <<condition_weights, level_weights, log_loss_thresholds>>

Next ==
    \/ \E c \in ConditionArgs, l \in LevelArgs : PreprocessInput(c, l)
    \/ \E s \in ScoreRows, c \in ConditionArgs, l \in LevelArgs :
           ApplyAdjustments(s, c, l)
    \/ \E s \in ScoreRows : GetPredictionConfidence(s)
    \/ \E s \in ScoreRows, c \in ConditionArgs, l \in LevelArgs :
           Predict(s, c, l)
    \/ \E start \in 0..(DatasetSize - 1), count \in 0..MaxSamples,
          batch_size \in 1..MaxBatchSize :
           BatchPredict(start, count, batch_size)
    \/ Return

Spec == Init /\ [][Next]_vars

\* ------------------------------------- a classifier of a width other than 3

\* A row of 2 or of 4 scores (as softmax weights), not all underflowing:
\* what a classifier built with another number of classes returns.
WrongWidthRows ==
    {s \in [1..2 -> 0..MaxWrongWidthWeight] \cup [1..4 -> 0..MaxWrongWidthWeight] :
        IntSum(s) > 0}

\* What a classifier of any of the widths 2, 3, 4 can return for one image.
ModelOutputRows == ScoreRows \cup WrongWidthRows

\* An image as a classifier of `width` outputs scores it: the third score
\* merged into the first (width 2), or one more score (width 4).
ScoresOfWidth(image, width) ==
    IF width = 2 THEN <<image[1] + image[3], image[2]>>
    ELSE IF width = 4 THEN Append(image, image[2])
    ELSE image

\* The dataloader as seen through a classifier of `width` outputs.
LoaderOfWidth(dataloader, width) ==
    [b \in 1..Len(dataloader) |->
        [dataloader[b] EXCEPT
            !.image = [i \in 1..Len(dataloader[b].image) |->
                          ScoresOfWidth(dataloader[b].image[i], width)]]]

\* batch_predict with a classifier of `width` outputs.
BatchPredictOfWidth(start, count, batch_size, width) ==
    /\ last = NoCall
    /\ last' = BatchPredictCall(Self,
                   LoaderOfWidth(DataLoader(start, count, batch_size), width))
    /\ UNCHANGED <<condition_weights, level_weights, log_loss_thresholds>>

\* predict and batch_predict over a classifier whose width is not fixed.
NextAnyWidth ==
    \/ \E s \in ModelOutputRows, c \in ConditionArgs, l \in LevelArgs :
           Predict(s, c, l)
    \/ \E start \in 0..(DatasetSize - 1), count \in 0..MaxSamples,
          batch_size \in 1..MaxBatchSize, width \in 2..4 :
           BatchPredictOfWidth(start, count, batch_size, width)
    \/ Return

SpecAnyWidth == Init /\ [][NextAnyWidth]_vars

\* ================================================================= claims

\* The 5 recognized values of each axis, in their fixed enumeration order.
ConditionEnumeration == <<SCS, LNFN, RNFN, LSS, RSS>>
LevelEnumeration == <<"L1_L2", "L2_L3", "L3_L4", "L4_L5", "L5_S1">>
ValidConditions == {ConditionEnumeration[i] : i \in 1..5}
ValidLevels == {LevelEnumeration[i] : i \in 1..5}

\* Non-negative components that sum to 1, three of them.
IsDistribution(row) ==
    /\ Len(row) = 3
    /\ \A j \in 1..3 : row[j][1] >= 0 /\ row[j][2] > 0
    /\ RatSum(row) = One

\* The calls that adjust distributions, ended without an exception.
Adjusted(call) ==
    /\ call.op \in {"apply_condition_level_adjustments", "predict", "batch_predict"}
    /\ call.error = ""

\* The k-th distribution such a call returns.
ReturnedDistribution(call, k) ==
    IF call.op = "apply_condition_level_adjustments" THEN call.returned[k]
    ELSE call.returned[k].probabilities[1]

ValidPair(t) == t.condition \in ValidConditions /\ t.level \in ValidLevels

\* The bias-corrected branch was taken: the log-loss entry read is above 0.8.
Corrected(t) == t.log_loss_threshold[1] * 10 > 8 * t.log_loss_threshold[2]

\* C1: for every valid (condition, level) pair and every raw distribution
\* (non-negative, summing to 1), the distribution returned by
\* apply_condition_level_adjustments, and so the 'probabilities' of predict
\* and batch_predict, has three non-negative components that sum to 1, in
\* the bias-corrected and in the uncorrected branch.
C1_AdjustedIsDistribution ==
    Adjusted(last) =>
        \A k \in 1..Len(last.trace) :
            (ValidPair(last.trace[k]) /\ IsDistribution(last.trace[k].input_before[1]))
                => IsDistribution(ReturnedDistribution(last, k))

\* A bias-corrected call whose vector did not sum to 1 before F.normalize.
C1_Witness ==
    /\ last.op = "predict" /\ last.error = ""
    /\ ValidPair(last.trace[1])
    /\ Corrected(last.trace[1])
    /\ RatSum(last.trace[1].pre_norm[1]) # One
    /\ IsDistribution(last.returned[1].probabilities[1])

\* C2 as amended: preprocess_input and predict, called with a condition or
\* a level that is not one of the 5 recognized values of its axis, fail
\* with KeyError; the model is not invoked and nothing is returned.
C2_UnknownLabelRaisesKeyError ==
    (/\ last.op \in {"preprocess_input", "predict"}
     /\ (last.condition \notin ValidConditions \/ last.level \notin ValidLevels))
        => /\ last.error = "KeyError"
           /\ ~last.model_invoked
           /\ last.returned = <<>>

\* predict called with a recognized condition and an unrecognized level.
C2_Witness ==
    /\ last.op = "predict"
    /\ last.condition = SCS /\ last.level = "T12_L1"
    /\ last.error = "KeyError" /\ ~last.model_invoked /\ last.returned = <<>>

\* C2 as stated: the failure is an InvalidLabelError.
C2_UnknownLabelRaisesInvalidLabelError ==
    (/\ last.op \in {"preprocess_input", "predict"}
     /\ (last.condition \notin ValidConditions \/ last.level \notin ValidLevels))
        => /\ last.error = "InvalidLabelError"
           /\ ~last.model_invoked
           /\ last.returned = <<>>

\* The samples of a dataloader, by batch, then by position inside the batch.
RECURSIVE FlatSamples(_)
FlatSamples(dataloader) ==
    IF dataloader = <<>> THEN <<>>
    ELSE [i \in 1..Len(dataloader[1].image) |->
             [image |-> dataloader[1].image[i],
              condition |-> dataloader[1].condition[i],
              level |-> dataloader[1].level[i]]]
         \o FlatSamples(Tail(dataloader))

\* The place of the 1 in a one-hot vector.
PlaceOfOne(vec) == CHOOSE i \in 1..Len(vec) : vec[i] = 1

C4_SeverityIsArgmaxOfAdjusted ==
    (last.op \in {"predict", "batch_predict"} /\ last.error = "") =>
        \A k \in 1..Len(last.returned) :
            LET severity == last.returned[k].severity_prediction[1]
                p == last.returned[k].probabilities[1]
            IN  /\ severity \in {0, 1, 2}
                /\ \A j \in 1..Len(p) : RatLE(p[j], p[severity + 1])

\* A result whose severity_prediction is where the adjusted distribution is
\* largest and the pre-adjustment distribution is not.
C4_Witness ==
    /\ last.op = "predict" /\ last.error = ""
    /\ LET severity == last.returned[1].severity_prediction[1]
           p == last.returned[1].probabilities[1]
           q == last.returned[1].original_probabilities[1]
       IN  /\ \A j \in 1..3 : RatLE(p[j], p[severity + 1])
           /\ \E j \in 1..3 : RatLT(q[severity + 1], q[j])

\* The call `call` made again, with the same arguments, on the object
\* `self`.
Replay(self, call) ==
    CASE call.op = "preprocess_input" ->
             PreprocessInputCall(call.condition, call.level)
      [] call.op = "apply_condition_level_adjustments" ->
             ApplyAdjustmentsCall(self, call.input, call.condition, call.level)
      [] call.op = "get_prediction_confidence" ->
             GetPredictionConfidenceCall(call.input)
      [] call.op = "predict" ->
             PredictCall(self,
                         IF call.input = <<>> THEN <<1, 1, 1>> ELSE call.input[1],
                         call.condition, call.level)
      [] call.op = "batch_predict" -> BatchPredictCall(self, call.input)
      [] OTHER -> NoCall

\* C5: the pipeline is stateless: whatever calls were made, the three tables
\* hold their construction-time values, and the call just made ended as the
\* same call with the same arguments ends on a freshly constructed pipeline.
C5_Stateless ==
    /\ condition_weights = InitConditionWeights
    /\ level_weights = InitLevelWeights
    /\ log_loss_thresholds = InitLogLossThresholds
    /\ last = Replay(InitSelf, last)

\* A predict call that read a condition weight and a level weight below 1
\* and took the in-place branch.
C5_Witness ==
    /\ last.op = "predict" /\ last.error = ""
    /\ last.condition = LSS /\ last.level = "L4_L5"
    /\ Corrected(last.trace[1])
    /\ level_weights = InitLevelWeights

\* C6: apply_condition_level_adjustments leaves the tensor it is passed as
\* it was, also in the branch that updates components in place, so
\* 'original_probabilities' of predict and batch_predict is the softmax of
\* the model output.
C6_InputUnchanged ==
    /\ Adjusted(last) =>
           \A k \in 1..Len(last.trace) :
               last.trace[k].input_after = last.trace[k].input_before
    /\ (last.op = "apply_condition_level_adjustments" /\ last.error = "") =>
           last.trace[1].input_after = last.input
    /\ (last.op = "predict" /\ last.error = "") =>
           last.returned[1].original_probabilities = Softmax(last.input)
    /\ (last.op = "batch_predict" /\ last.error = "") =>
           \A k \in 1..Len(last.returned) :
               last.returned[k].original_probabilities =
                   Softmax(<<FlatSamples(last.input)[k].image>>)

\* A predict call through the in-place branch whose adjusted distribution
\* differs from the softmax of the model output.
C6_Witness ==
    /\ last.op = "predict" /\ last.error = ""
    /\ Corrected(last.trace[1])
    /\ last.trace[1].weight # One
    /\ last.returned[1].probabilities # last.returned[1].original_probabilities
    /\ last.returned[1].original_probabilities = Softmax(last.input)

\* confidence = max_prob * (1 - entropy / ln 3) is above 1 where max_prob
\* is 1 and entropy is negative.
ExceedsOne(confidence) ==
    confidence.entropy_sign = -1 /\ RatLE(One, confidence.max_prob)

\* C7: the 'confidence' returned by predict is at most 1 (the upper half of
\* 0 <= confidence <= 1).
C7_ConfidenceAtMostOne ==
    (last.op = "predict" /\ last.error = "") =>
        \A r \in 1..Len(last.returned[1].confidence) :
            ~ExceedsOne(last.returned[1].confidence[r])

\* The condition and level weights, in hundredths, in enumeration order.
ListedConditionWeights == <<100, 95, 95, 93, 93>>
ListedLevelWeights == <<100, 98, 95, 90, 92>>

PlaceOf(label, enumeration) ==
    CHOOSE i \in 1..Len(enumeration) : enumeration[i] = label

\* C8: the tables hold the listed weights in enumeration order, and for
\* every valid (condition, level) pair the combined weight
\* apply_condition_level_adjustments uses is the product of the two listed
\* weights and lies in [0.837, 1.0].
C8_CombinedWeightInRange ==
    /\ \A i \in 1..5 :
           /\ condition_weights[i] =
                  <<ConditionEnumeration[i], Rat(ListedConditionWeights[i], 100)>>
           /\ level_weights[i] =
                  <<LevelEnumeration[i], Rat(ListedLevelWeights[i], 100)>>
    /\ Adjusted(last) =>
           \A k \in 1..Len(last.trace) :
               LET t == last.trace[k]
               IN  ValidPair(t) =>
                       /\ t.weight =
                              Rat(ListedConditionWeights[PlaceOf(t.condition, ConditionEnumeration)]
                                  * ListedLevelWeights[PlaceOf(t.level, LevelEnumeration)],
                                  10000)
                       /\ 837 * t.weight[2] <= 1000 * t.weight[1]
                       /\ t.weight[1] <= t.weight[2]

\* A call that used the smallest combined weight, 0.93 * 0.90.
C8_Witness ==
    /\ last.op = "predict" /\ last.error = ""
    /\ last.trace[1].condition = RSS /\ last.trace[1].level = "L4_L5"
    /\ last.trace[1].weight = <<837, 1000>>

\* The family of a condition, as the claim lists it.
FamilyOf(condition) ==
    IF condition \in {LNFN, RNFN} THEN NFN
    ELSE IF condition \in {LSS, RSS} THEN SS
    ELSE condition

\* (w*p0 + 0.1, 0.95*w*p1, 0.9*w*p2)
CorrectedVector(w, p) ==
    <<RatAdd(RatMul(w, p[1]), Rat(1, 10)),
      RatMul(Rat(95, 100), RatMul(w, p[2])),
      RatMul(Rat(9, 10), RatMul(w, p[3]))>>

\* (w*p0, w*p1, w*p2)
ScaledVector(w, p) == <<RatMul(w, p[1]), RatMul(w, p[2]), RatMul(w, p[3])>>

\* C9: for every valid (condition, level) and raw triple p, with w the
\* combined weight and L the log-loss entry of the condition's family at
\* the level, the vector handed to L1 normalization is
\* (w*p0 + 0.1, 0.95*w*p1, 0.9*w*p2) exactly when L > 0.8 and (w*p0, w*p1,
\* w*p2) otherwise; corrected for Spinal Canal Stenosis/L4_L5 and Left
\* Subarticular Stenosis/L4_L5, not for Spinal Canal Stenosis/L1_L2.
C9_VectorHandedToNormalize ==
    Adjusted(last) =>
        \A k \in 1..Len(last.trace) :
            LET t == last.trace[k]
                p == t.input_before[1]
                w == RatMul(Lookup(condition_weights, t.condition),
                            Lookup(level_weights, t.level))
                L == Lookup(Lookup(log_loss_thresholds, FamilyOf(t.condition)),
                            t.level)
            IN  ValidPair(t) =>
                    /\ L[1] * 10 > 8 * L[2] => t.pre_norm[1] = CorrectedVector(w, p)
                    /\ L[1] * 10 <= 8 * L[2] => t.pre_norm[1] = ScaledVector(w, p)
                    /\ (t.condition = SCS /\ t.level = "L4_L5") =>
                           L = Rat(8928, 10000) /\ t.pre_norm[1] = CorrectedVector(w, p)
                    /\ (t.condition = LSS /\ t.level = "L4_L5") =>
                           L = Rat(11551, 10000) /\ t.pre_norm[1] = CorrectedVector(w, p)
                    /\ (t.condition = SCS /\ t.level = "L1_L2") =>
                           L = Rat(1067, 10000) /\ t.pre_norm[1] = ScaledVector(w, p)

\* Spinal Canal Stenosis/L4_L5 on a triple on which the corrected and the
\* scaled vector differ in all three components.
C9_Witness ==
    /\ last.op = "apply_condition_level_adjustments" /\ last.error = ""
    /\ last.condition = SCS /\ last.level = "L4_L5"
    /\ last.input[1][2] # Zero /\ last.input[1][3] # Zero
    /\ last.trace[1].pre_norm[1] = CorrectedVector(Rat(9, 10), last.input[1])
    /\ last.trace[1].pre_norm[1] # ScaledVector(Rat(9, 10), last.input[1])

\* Exactly one 1, at place idx (from 0), in a vector of length 5.
IsOneHotAt(vec, idx) ==
    /\ Len(vec) = 5
    /\ \A i \in 1..5 : vec[i] = (IF i = idx + 1 THEN 1 ELSE 0)

\* C10: preprocess_input encodes each of the 5 conditions and 5 levels as a
\* length-5 vector with exactly one 1 at the label's enumeration index; the
\* reverse lookup of batch_predict (argmax, indexed into the key order of
\* condition_weights / level_weights) gives the label back, so batch_predict
\* adjusts each sample with the (condition, level) whose encoding the
\* sample holds.
C10_LabelRoundTrip ==
    /\ (/\ last.op = "preprocess_input"
        /\ last.condition \in ValidConditions /\ last.level \in ValidLevels) =>
           /\ last.error = ""
           /\ IsOneHotAt(last.returned[1],
                         PlaceOf(last.condition, ConditionEnumeration) - 1)
           /\ IsOneHotAt(last.returned[2], PlaceOf(last.level, LevelEnumeration) - 1)
           /\ Keys(condition_weights)[ArgMaxInt(last.returned[1]) + 1] = last.condition
           /\ Keys(level_weights)[ArgMaxInt(last.returned[2]) + 1] = last.level
    /\ (last.op = "batch_predict" /\ last.error = "") =>
           \A k \in 1..Len(last.trace) :
               LET sample == FlatSamples(last.input)[k]
                   encoded == preprocess_input(last.trace[k].condition,
                                               last.trace[k].level)
               IN  /\ encoded.error = ""
                   /\ encoded.condition_tensor = sample.condition
                   /\ encoded.level_tensor = sample.level

\* preprocess_input on the fourth condition and the fifth level.
C10_Witness ==
    /\ last.op = "preprocess_input" /\ last.error = ""
    /\ last.condition = LSS /\ last.level = "L5_S1"
    /\ last.returned = << <<0, 0, 0, 1, 0>>, <<0, 0, 0, 0, 1>> >>

\* The classifier returned, for some sample of the call, a row of scores
\* whose length is not 3.
WrongWidthOutput(call) ==
    \/ /\ call.op = "predict" /\ call.model_invoked
       /\ Len(call.input[1]) # 3
    \/ /\ call.op = "batch_predict"
       /\ \E b \in 1..Len(call.input) :
              \E i \in 1..Len(call.input[b].image) :
                  Len(call.input[b].image[i]) # 3

\* C11: when the upstream model returns a score vector whose length is not
\* 3, predict and batch_predict fail with an error and return no result,
\* for every (condition, level) pair: a wrong-length vector is never
\* normalized and returned as if it were a valid distribution.
C11_WrongLengthOutputFails ==
    WrongWidthOutput(last) => last.error # "" /\ last.returned = <<>>

\* The weight of a label: its table entry, the default for a label the
\* table does not list.
WeightOrDefault(table, label, default) ==
    IF \E i \in 1..Len(table) : table[i][1] = label
    THEN (CHOOSE e \in {table[i] : i \in 1..Len(table)} : e[1] = label)[2]
    ELSE default

\* C12: apply_condition_level_adjustments, called with a condition that is
\* not in the condition weight table or a level that is not in the level
\* weight table, falls back to the default weight 0.95 for the condition
\* and 0.90 for the level and computes the adjusted distribution with that
\* weight.
C12_UnknownLabelFallsBackToDefault ==
    (/\ last.op = "apply_condition_level_adjustments"
     /\ ~(last.condition \in ValidConditions /\ last.level \in ValidLevels)) =>
        /\ last.error = ""
        /\ last.trace[1].weight =
               RatMul(WeightOrDefault(condition_weights, last.condition, Rat(95, 100)),
                      WeightOrDefault(level_weights, last.level, Rat(90, 100)))
        /\ IsDistribution(last.returned[1])

\* The log-loss entry of a valid pair, read from the table by the
\* condition's family.
LogLossEntry(t) ==
    Lookup(Lookup(log_loss_thresholds, FamilyOf(t.condition)), t.level)

\* C13: for every valid (condition, level) whose log-loss entry is not
\* above 0.8 and every raw distribution summing to 1, the distribution
\* returned by apply_condition_level_adjustments equals the raw input
\* distribution (the L1 normalization cancels the scaling by the combined
\* weight), so 'probabilities' equals 'original_probabilities' in predict
\* and batch_predict there.
C13_UncorrectedEqualsRaw ==
    Adjusted(last) =>
        \A k \in 1..Len(last.trace) :
            LET t == last.trace[k]
            IN  (/\ ValidPair(t)
                 /\ LogLossEntry(t)[1] * 10 <= 8 * LogLossEntry(t)[2]
                 /\ RatSum(t.input_before[1]) = One) =>
                    /\ ReturnedDistribution(last, k) = t.input_before[1]
                    /\ last.op # "apply_condition_level_adjustments" =>
                           last.returned[k].probabilities =
                               last.returned[k].original_probabilities

\* Left Neural Foraminal Narrowing/L2_L3 (entry 0.4635, weight 0.95 * 0.98)
\* in predict: the vector scaled below sum 1, and the raw one returned.
C13_Witness ==
    /\ last.op = "predict" /\ last.error = ""
    /\ last.condition = LNFN /\ last.level = "L2_L3"
    /\ last.trace[1].weight = Rat(931, 1000)
    /\ RatSum(last.trace[1].pre_norm[1]) = Rat(931, 1000)
    /\ last.trace[1].input_before[1][2] # Zero
    /\ last.trace[1].input_before[1][3] # Zero
    /\ last.returned[1].probabilities[1] = last.trace[1].input_before[1]

\* C14: the adjustment never makes a prediction more severe: for every
\* valid (condition, level) and every raw distribution, the adjusted
\* Normal/Mild probability is at least the raw one, the adjusted Severe
\* probability is at most the raw one, and the most likely class of the
\* adjusted distribution ('severity_prediction') has an index at most that
\* of 'original_probabilities'.
C14_NeverMoreSevere ==
    Adjusted(last) =>
        \A k \in 1..Len(last.trace) :
            LET t == last.trace[k]
                raw == t.input_before[1]
                adjusted == ReturnedDistribution(last, k)
            IN  (ValidPair(t) /\ IsDistribution(raw)) =>
                    /\ RatLE(raw[1], adjusted[1])
                    /\ RatLE(adjusted[3], raw[3])
                    /\ ArgMax(adjusted) <= ArgMax(raw)
                    /\ last.op # "apply_condition_level_adjustments" =>
                           last.returned[k].severity_prediction[1]
                               <= ArgMax(last.returned[k].original_probabilities[1])

\* Spinal Canal Stenosis/L4_L5 in predict on the raw distribution
\* (0.3, 0.3, 0.4): Severe is the most likely class before the adjustment,
\* Normal/Mild after it.
C14_Witness ==
    /\ last.op = "predict" /\ last.error = ""
    /\ last.condition = SCS /\ last.level = "L4_L5"
    /\ last.returned[1].original_probabilities[1] =
           <<Rat(3, 10), Rat(3, 10), Rat(4, 10)>>
    /\ ArgMax(last.returned[1].original_probabilities[1]) = 2
    /\ last.returned[1].severity_prediction[1] = 0
    /\ RatLT(Rat(3, 10), last.returned[1].probabilities[1][1])
    /\ RatLT(last.returned[1].probabilities[1][3], Rat(4, 10))

====
